---- MODULE Spec2Model ----
(***************************************************************************)
(* Model of dialogflow.py: the credential loader (_get_google_creds), the  *)
(* query responder (get_response) and the agent trainer (train_agent).     *)
(* One behaviour is one invocation of one public function.  The remote     *)
(* service, the credentials file and the logger are the environment: every *)
(* outcome of a remote call and of the file read is a nondeterministic     *)
(* choice, and every remote call and log entry is appended to `trace`.     *)
(***************************************************************************)
EXTENDS Integers, Sequences, FiniteSets, TLC

VARIABLES op, pc, args, credsFile, google_creds, i, trace, response, result, agentIntents

vars == <<op, pc, args, credsFile, google_creds, i, trace, response, result, agentIntents>>

----------------------------------------------------------------------------
(* Bounds and input domains *)

MaxIntents == 3

DisplayNames == {"A", "B"}

ProjectIds == {"p1"}

SessionIds == {"s1", "s2"}

Texts == {"hi"}

LanguageCodes == {"ru"}

FulfillmentTexts == {"Hello!", ""}

DetectedNames == {"greeting", "Default Fallback Intent"}

\* Exceptions that derive from google.api_core.exceptions.GoogleAPIError.
GoogleAPIErrors == {"InvalidArgument", "ServiceUnavailable"}

\* Exceptions a client call can raise that do not derive from GoogleAPIError.
OtherErrors == {"TransportError"}

CallErrors == GoogleAPIErrors \cup OtherErrors

\* Exceptions the construction of an API client can raise.
ClientErrors == {"DefaultCredentialsError"}

\* States of the file named by env_settings.google_app_creds_file.
CredsFileStates == {"valid", "missing", "malformed", "field_missing"}

CredsFiles == [state : CredsFileStates, project_id : ProjectIds]

RECURSIVE SeqsUpTo(_, _)
SeqsUpTo(S, n) ==
    IF n = 0 THEN {<<>>}
    ELSE LET shorter == SeqsUpTo(S, n - 1)
         IN  shorter \cup {Append(s, x) : s \in {t \in shorter : Len(t) = n - 1}, x \in S}

\* An element of the list given to train_agent: a mapping, of which the program
\* reads display_name only.  The list is not validated, so an element may lack
\* that key.
IntentDefs == [display_name : DisplayNames] \cup {[messages |-> <<>>]}

IntentLists == SeqsUpTo(IntentDefs, MaxIntents)

NoCreds == [project_id |-> ""]

NoResponse == [query_text |-> "", display_name |-> "", confidence |-> 0,
               fulfillment_text |-> "", is_fallback |-> FALSE]

NoResult == [kind |-> "none", error |-> "", value |-> <<>>]

----------------------------------------------------------------------------
(* Helpers *)

Event(kind, idx, name, outcome, parent, text) ==
    [kind |-> kind, idx |-> idx, name |-> name, outcome |-> outcome,
     parent |-> parent, text |-> text]

\* A raise that leaves the function: the exception reaches the caller as is.
Raised(e) == [kind |-> "raised", error |-> e, value |-> <<>>]

\* A normal return; value is <<>> for None and <<r>> for a returned object r.
Returned(v) == [kind |-> "returned", error |-> "", value |-> v]

\* Variant with a bug: a file lacking required fields yields a partial record.
LoadOutcome_Partial(file) ==
    CASE file.state = "missing"       -> "FileNotFoundError"
      [] file.state = "malformed"     -> "JSONDecodeError"
      [] OTHER                        -> "ok"

\* open() + GoogleCreds.from_json(): the exception raised, or "ok".
LoadOutcome(file) ==
    CASE file.state = "missing"       -> "FileNotFoundError"
      [] file.state = "malformed"     -> "JSONDecodeError"
      [] file.state = "field_missing" -> "KeyError"
      [] OTHER                        -> "ok"

\* The GoogleCreds record parsed from a valid file.
ParseCreds(file) == [project_id |-> file.project_id]

\* Variant with a bug: the handler names one subclass of GoogleAPIError only.
IsGoogleAPIError_Narrow(e) == e = "InvalidArgument"

\* except GoogleAPIError: which exceptions the handler of train_agent catches.
IsGoogleAPIError(e) == e \in GoogleAPIErrors

\* session_client.session_path(project, session)
session_path(project, session) == <<"projects", project, "agent", "sessions", session>>

\* f'projects/{google_creds.project_id}/agent'
AgentParent(creds) == <<"projects", creds.project_id, "agent">>

\* f'projects/{google_creds.project_id}'
ProjectParent(creds) == <<"projects", creds.project_id>>

\* Variant with a bug: the list is walked from its end.
ElemIndex_Reversed(k, n) == n + 1 - k

\* Position in the input list of the element of the i-th loop iteration.
ElemIndex(k, n) == k

\* Variant with a bug: an empty fulfillment text is replaced by a local text.
MakeResponse_LocalFallback(r) ==
    [text |-> IF r.fulfillment_text = "" THEN "Sorry" ELSE r.fulfillment_text,
     is_fallback |-> r.is_fallback]

\* Response(text=..., is_fallback=...) built from the service's reply.
MakeResponse(r) == [text |-> r.fulfillment_text, is_fallback |-> r.is_fallback]

\* The replies the remote service can give to a detect-intent request.
Replies(text) ==
    [query_text : {text}, display_name : DetectedNames, confidence : {0, 1},
     fulfillment_text : FulfillmentTexts, is_fallback : BOOLEAN]

----------------------------------------------------------------------------
(* Initial states: the entry of one invocation of a public function *)

Init ==
    /\ op \in {"get_response", "train_agent"}
    /\ credsFile \in CredsFiles
    /\ \/ /\ op = "get_response"
          /\ args \in [session_id : SessionIds, text : Texts,
                       language_code : LanguageCodes, intents : {<<>>}]
       \/ /\ op = "train_agent"
          /\ args \in [session_id : {""}, text : {""}, language_code : {""},
                       intents : IntentLists]
    /\ pc = "creds"
    /\ google_creds = NoCreds
    /\ i = 0
    /\ trace = <<>>
    /\ response = NoResponse
    /\ result = NoResult
    /\ agentIntents = <<>>

----------------------------------------------------------------------------
(* _get_google_creds, called first by both public functions *)

GetGoogleCreds ==
    /\ pc = "creds"
    /\ IF LoadOutcome(credsFile) = "ok"
       THEN /\ google_creds' = ParseCreds(credsFile)
            /\ pc' = "clients"
            /\ result' = result
       ELSE /\ google_creds' = google_creds
            /\ pc' = "done"
            /\ result' = Raised(LoadOutcome(credsFile))
    /\ UNCHANGED <<op, args, credsFile, i, trace, response, agentIntents>>

----------------------------------------------------------------------------
(* get_response *)

\* SessionsClient(), session_path and the session log entry.
OpenSession ==
    /\ op = "get_response"
    /\ pc = "clients"
    /\ \/ /\ pc' = "detect"
          /\ trace' = Append(trace, Event("log_info_session", 0, args.session_id, "",
                                          <<>>, args.language_code))
          /\ result' = result
       \/ \E e \in ClientErrors :
             /\ pc' = "done"
             /\ trace' = trace
             /\ result' = Raised(e)
    /\ UNCHANGED <<op, args, credsFile, google_creds, i, response, agentIntents>>

\* Variant with a bug: a failed detect-intent call is issued a second time.
DetectIntent_Retry ==
    /\ op = "get_response"
    /\ pc = "detect"
    /\ \/ \E r \in Replies(args.text) :
             /\ response' = r
             /\ trace' = trace \o
                  << Event("detect_intent", 0, "", "ok",
                           session_path(google_creds.project_id, args.session_id), args.text),
                     Event("log_info_result", 0, r.display_name, "", <<>>,
                           r.fulfillment_text) >>
             /\ result' = Returned(<<MakeResponse(r)>>)
             /\ pc' = "done"
       \/ \E e \in CallErrors :
             /\ response' = response
             /\ trace' = Append(trace,
                    Event("detect_intent", 0, "", e,
                          session_path(google_creds.project_id, args.session_id), args.text))
             /\ IF Len(trace) < 2
                THEN /\ pc' = "detect"
                     /\ result' = result
                ELSE /\ pc' = "done"
                     /\ result' = Raised(e)
    /\ UNCHANGED <<op, args, credsFile, google_creds, i, agentIntents>>

\* Variant with a bug: a failed detect-intent call is caught and a local
\* fallback Response is returned.
DetectIntent_Swallow ==
    /\ op = "get_response"
    /\ pc = "detect"
    /\ \/ \E r \in Replies(args.text) :
             /\ response' = r
             /\ trace' = trace \o
                  << Event("detect_intent", 0, "", "ok",
                           session_path(google_creds.project_id, args.session_id), args.text),
                     Event("log_info_result", 0, r.display_name, "", <<>>,
                           r.fulfillment_text) >>
             /\ result' = Returned(<<MakeResponse(r)>>)
       \/ \E e \in CallErrors :
             /\ response' = response
             /\ trace' = Append(trace,
                    Event("detect_intent", 0, "", e,
                          session_path(google_creds.project_id, args.session_id), args.text))
             /\ result' = Returned(<<[text |-> "", is_fallback |-> TRUE]>>)
    /\ pc' = "done"
    /\ UNCHANGED <<op, args, credsFile, google_creds, i, agentIntents>>

\* session_client.detect_intent(...), then the result log entry and the return.
DetectIntent ==
    /\ op = "get_response"
    /\ pc = "detect"
    /\ \/ \E r \in Replies(args.text) :
             /\ response' = r
             /\ trace' = trace \o
                  << Event("detect_intent", 0, "", "ok",
                           session_path(google_creds.project_id, args.session_id), args.text),
                     Event("log_info_result", 0, r.display_name, "", <<>>,
                           r.fulfillment_text) >>
             /\ result' = Returned(<<MakeResponse(r)>>)
       \/ \E e \in CallErrors :
             /\ response' = response
             /\ trace' = Append(trace,
                    Event("detect_intent", 0, "", e,
                          session_path(google_creds.project_id, args.session_id), args.text))
             /\ result' = Raised(e)
    /\ pc' = "done"
    /\ UNCHANGED <<op, args, credsFile, google_creds, i, agentIntents>>

----------------------------------------------------------------------------
(* train_agent *)

\* IntentsClient() and AgentsClient().
MakeClients ==
    /\ op = "train_agent"
    /\ pc = "clients"
    /\ \/ /\ pc' = "loop"
          /\ result' = result
       \/ \E e \in ClientErrors :
             /\ pc' = "done"
             /\ result' = Raised(e)
    /\ UNCHANGED <<op, args, credsFile, google_creds, i, trace, response, agentIntents>>

\* for intent in intents: the next element, or the end of the function.
LoopNext ==
    /\ op = "train_agent"
    /\ pc = "loop"
    /\ IF i < Len(args.intents)
       THEN /\ i' = i + 1
            /\ pc' = "create"
            /\ result' = result
       ELSE /\ i' = i
            /\ pc' = "done"
            /\ result' = Returned(<<>>)
    /\ UNCHANGED <<op, args, credsFile, google_creds, trace, response, agentIntents>>

\* The element of the current iteration.
CurIdx == ElemIndex(i, Len(args.intents))

CurIntent == args.intents[CurIdx]

\* Whether intent["display_name"] finds the key; without it the lookup raises
\* KeyError.
HasName(intent) == "display_name" \in DOMAIN intent

\* The display name carried by the intent payload of a remote call ("" if none).
NameOf(intent) == IF HasName(intent) THEN intent.display_name ELSE ""

\* The create_intent call and what it records.
CreateEvent(outcome) ==
    Event("create_intent", CurIdx, NameOf(CurIntent), outcome, AgentParent(google_creds), "")

\* The train_agent call and what it records.
TrainEvent(outcome) ==
    Event("train_agent", CurIdx, NameOf(CurIntent), outcome, ProjectParent(google_creds), "")

\* Variant with a bug: the training call is outside the guarded creation, so it
\* is issued after a failed creation too.
CreateIntent_TrainAnyway ==
    /\ op = "train_agent"
    /\ pc = "create"
    /\ \/ /\ agentIntents' = Append(agentIntents, CurIntent)
          /\ IF HasName(CurIntent)
             THEN /\ trace' = trace \o
                        << CreateEvent("ok"),
                           Event("log_info_created", CurIdx, CurIntent.display_name, "",
                                 <<>>, "") >>
                  /\ pc' = "train"
                  /\ result' = result
             ELSE /\ trace' = Append(trace, CreateEvent("ok"))
                  /\ pc' = "done"
                  /\ result' = Raised("KeyError")
       \/ \E e \in CallErrors :
             /\ trace' = Append(trace, CreateEvent(e))
             /\ agentIntents' = agentIntents
             /\ IF IsGoogleAPIError(e)
                THEN /\ pc' = "train"
                     /\ result' = result
                ELSE /\ pc' = "done"
                     /\ result' = Raised(e)
    /\ UNCHANGED <<op, args, credsFile, google_creds, i, response>>

\* intents_client.create_intent(...) (line 98) and, when it returned, the
\* 'created' log entry (line 99), whose intent["display_name"] raises KeyError
\* for an intent without that key; KeyError is not caught by the handler.
CreateIntent ==
    /\ op = "train_agent"
    /\ pc = "create"
    /\ \/ /\ agentIntents' = Append(agentIntents, CurIntent)
          /\ IF HasName(CurIntent)
             THEN /\ trace' = trace \o
                        << CreateEvent("ok"),
                           Event("log_info_created", CurIdx, CurIntent.display_name, "",
                                 <<>>, "") >>
                  /\ pc' = "train"
                  /\ result' = result
             ELSE /\ trace' = Append(trace, CreateEvent("ok"))
                  /\ pc' = "done"
                  /\ result' = Raised("KeyError")
       \/ \E e \in CallErrors :
             /\ trace' = Append(trace, CreateEvent(e))
             /\ agentIntents' = agentIntents
             /\ IF IsGoogleAPIError(e)
                THEN /\ pc' = "except"
                     /\ result' = result
                ELSE /\ pc' = "done"
                     /\ result' = Raised(e)
    /\ UNCHANGED <<op, args, credsFile, google_creds, i, response>>

\* agents_client.train_agent(...) (line 100) and, when it returned, the
\* 'trained' log entry (line 101).
TrainAgentCall ==
    /\ op = "train_agent"
    /\ pc = "train"
    /\ \/ IF HasName(CurIntent)
          THEN /\ trace' = trace \o
                     << TrainEvent("ok"),
                        Event("log_info_trained", CurIdx, CurIntent.display_name, "",
                              <<>>, "") >>
               /\ pc' = "loop"
               /\ result' = result
          ELSE /\ trace' = Append(trace, TrainEvent("ok"))
               /\ pc' = "done"
               /\ result' = Raised("KeyError")
       \/ \E e \in CallErrors :
             /\ trace' = Append(trace, TrainEvent(e))
             /\ IF IsGoogleAPIError(e)
                THEN /\ pc' = "except"
                     /\ result' = result
                ELSE /\ pc' = "done"
                     /\ result' = Raised(e)
    /\ UNCHANGED <<op, args, credsFile, google_creds, i, response, agentIntents>>

\* The exception caught by the handler: that of the last remote call.
CaughtError == trace[Len(trace)].outcome

\* The two entries the handler writes for the current element.
ErrorEntries ==
    << Event("log_error_not_created", CurIdx, CurIntent.display_name, "", <<>>, ""),
       Event("log_exception", CurIdx, "", CaughtError, <<>>, "") >>

\* Variant with a bug: the handler encloses the loop, so the first failure ends it.
HandleError_Break ==
    /\ op = "train_agent"
    /\ pc = "except"
    /\ IF HasName(CurIntent)
       THEN /\ trace' = trace \o ErrorEntries
            /\ result' = Returned(<<>>)
       ELSE /\ trace' = trace
            /\ result' = Raised("KeyError")
    /\ pc' = "done"
    /\ UNCHANGED <<op, args, credsFile, google_creds, i, response, agentIntents>>

\* Variant with a bug: the handler passes over the failure without logging it.
HandleError_Silent ==
    /\ op = "train_agent"
    /\ pc = "except"
    /\ trace' = trace
    /\ pc' = "loop"
    /\ UNCHANGED <<op, args, credsFile, google_creds, i, response, result, agentIntents>>

\* Variant with a bug: the handler undoes the creation when training failed.
HandleError_Rollback ==
    /\ op = "train_agent"
    /\ pc = "except"
    /\ IF HasName(CurIntent)
       THEN /\ trace' = trace \o ErrorEntries
            /\ pc' = "loop"
            /\ result' = result
       ELSE /\ trace' = trace
            /\ pc' = "done"
            /\ result' = Raised("KeyError")
    /\ agentIntents' = IF trace[Len(trace)].kind = "train_agent"
                       THEN SubSeq(agentIntents, 1, Len(agentIntents) - 1)
                       ELSE agentIntents
    /\ UNCHANGED <<op, args, credsFile, google_creds, i, response>>

\* except GoogleAPIError (line 102): logger.error(...) (line 103), whose
\* intent["display_name"] raises KeyError for an intent without that key, then
\* logger.exception(...) (line 104) and the next element.
HandleError ==
    /\ op = "train_agent"
    /\ pc = "except"
    /\ IF HasName(CurIntent)
       THEN /\ trace' = trace \o ErrorEntries
            /\ pc' = "loop"
            /\ result' = result
       ELSE /\ trace' = trace
            /\ pc' = "done"
            /\ result' = Raised("KeyError")
    /\ UNCHANGED <<op, args, credsFile, google_creds, i, response, agentIntents>>

----------------------------------------------------------------------------

Next ==
    \/ GetGoogleCreds
    \/ OpenSession
    \/ DetectIntent
    \/ MakeClients
    \/ LoopNext
    \/ CreateIntent
    \/ TrainAgentCall
    \/ HandleError

Spec == Init /\ [][Next]_vars

----------------------------------------------------------------------------
(* Observations on the trace *)

RemoteCallKinds == {"detect_intent", "create_intent", "train_agent"}

Positions == 1..Len(trace)

Pos(kind) == {k \in Positions : trace[k].kind = kind}

RemotePos == {k \in Positions : trace[k].kind \in RemoteCallKinds}

OkPos(kind) == {k \in Pos(kind) : trace[k].outcome = "ok"}

\* Remote calls that ended in an exception deriving from GoogleAPIError.
APIFailedPos == {k \in RemotePos : trace[k].outcome \in GoogleAPIErrors}

FailedPos == {k \in RemotePos : trace[k].outcome # "ok"}

\* Position in the trace of the n-th remote call.
RemoteAt(n) == CHOOSE k \in RemotePos : Cardinality({m \in RemotePos : m <= k}) = n

\* Every remote call so far succeeded or raised a GoogleAPIError.
OnlyAPIFailures == \A k \in RemotePos : trace[k].outcome \in {"ok"} \cup GoogleAPIErrors

\* The invocation got past credential loading and client construction.
Started == credsFile.state = "valid" /\ result.error \notin ClientErrors

TrainDone == op = "train_agent" /\ pc = "done"

QueryDone == op = "get_response" /\ pc = "done"

NumIntents == Len(args.intents)

\* Every element of the input is an intent definition with a display_name.
AllNamed == \A j \in 1..NumIntents : HasName(args.intents[j])

\* The first element without display_name, or the length of the input if none:
\* the element at which a run without other failures stops.
LastReached ==
    IF AllNamed THEN NumIntents
    ELSE CHOOSE j \in 1..NumIntents :
            /\ ~HasName(args.intents[j])
            /\ \A m \in 1..(j - 1) : HasName(args.intents[m])

\* The run was ended by the KeyError of intent["display_name"] on element j.
EndedByKeyError(j) ==
    /\ pc = "done"
    /\ result = Raised("KeyError")
    /\ ~HasName(args.intents[j])
    /\ trace[Len(trace)].kind = "create_intent"
    /\ trace[Len(trace)].idx = j

----------------------------------------------------------------------------
(* C1 *)

\* C1 (as stated): whatever the outcome of credential loading and of the remote
\* calls, an invocation of train_agent ends by returning normally.
C1_NeverRaises == TrainDone => result.kind = "returned"

\* C1 (amended): train_agent never propagates a GoogleAPIError of a create-intent
\* or train-agent call; once credentials are loaded and the clients constructed,
\* it returns normally (None) whenever every failing remote call failed with a
\* GoogleAPIError and every intent carries display_name.  A credential-load
\* failure is propagated to the caller, and so is the KeyError of the log
\* statements for an intent without display_name.
C1_CatchesAPIErrors ==
    TrainDone =>
        /\ result.kind \in {"returned", "raised"}
        /\ result.kind = "raised" => result.error \notin GoogleAPIErrors
        /\ (Started /\ OnlyAPIFailures /\ AllNamed) => result = Returned(<<>>)
        /\ (Started /\ OnlyAPIFailures /\ ~AllNamed) => EndedByKeyError(LastReached)
        /\ credsFile.state # "valid" => result.kind = "raised"

C1_Witness ==
    /\ TrainDone
    /\ result = Returned(<<>>)
    /\ AllNamed
    /\ \E k \in APIFailedPos : trace[k].kind = "create_intent"
    /\ \E k \in APIFailedPos : trace[k].kind = "train_agent"

----------------------------------------------------------------------------
(* C2 *)

\* C2: when the credentials file is missing, unreadable or malformed, both public
\* functions propagate the load error to the caller and issue no remote call.
C2_CredsFailureFatal ==
    credsFile.state # "valid" =>
        /\ RemotePos = {}
        /\ agentIntents = <<>>
        /\ pc \in {"creds", "done"}
        /\ pc = "done" =>
              /\ result.kind = "raised"
              /\ result.error = (CASE credsFile.state = "missing"   -> "FileNotFoundError"
                                   [] credsFile.state = "malformed" -> "JSONDecodeError"
                                   [] OTHER                         -> "KeyError")

C2_Witness ==
    /\ TrainDone
    /\ credsFile.state = "field_missing"
    /\ NumIntents = 2
    /\ result = Raised("KeyError")
    /\ trace = <<>>

----------------------------------------------------------------------------
(* C3 *)

\* C3: with credentials loaded, train_agent issues exactly one create-intent call
\* per intent definition of the input (each carrying display_name), whatever
\* remote-service errors earlier elements met: the number of create-intent calls
\* equals the length of the input, and an empty input gives no remote call and a
\* normal return.  (For an input with an element lacking display_name the calls
\* stop at the first such element.)
C3_OneCreatePerIntent ==
    /\ op = "train_agent" =>
          \A j \in 1..NumIntents :
              Cardinality({k \in Pos("create_intent") : trace[k].idx = j}) <= 1
    /\ (TrainDone /\ Started /\ OnlyAPIFailures /\ AllNamed) =>
          /\ Cardinality(Pos("create_intent")) = NumIntents
          /\ \A j \in 1..NumIntents :
                Cardinality({k \in Pos("create_intent") : trace[k].idx = j}) = 1
          /\ NumIntents = 0 => (RemotePos = {} /\ result = Returned(<<>>))
    /\ (TrainDone /\ Started /\ OnlyAPIFailures) =>
          {trace[k].idx : k \in Pos("create_intent")} = 1..LastReached

\* Three intents, the creation of the second fails: 3 create calls, 2 train calls.
C3_Witness ==
    /\ TrainDone /\ Started /\ OnlyAPIFailures /\ AllNamed
    /\ NumIntents = 3
    /\ \E k \in Pos("create_intent") : trace[k].idx = 2 /\ trace[k].outcome \in GoogleAPIErrors
    /\ Cardinality(Pos("create_intent")) = 3
    /\ Cardinality(Pos("train_agent")) = 2

----------------------------------------------------------------------------
(* C4 *)

\* C4: a train-agent call is issued only right after the successful create-intent
\* call of the same element, and once for it: the number of train-agent calls never
\* exceeds the number of successful create-intent calls and, for intent
\* definitions carrying display_name, equals it at the end.  (An element without
\* display_name that was created gets no train-agent call.)
C4_TrainAfterCreate ==
    op = "train_agent" =>
        /\ Cardinality(Pos("train_agent")) <= Cardinality(OkPos("create_intent"))
        /\ \A k \in Pos("train_agent") :
              /\ k > 2
              /\ trace[k - 2].kind = "create_intent"
              /\ trace[k - 2].outcome = "ok"
              /\ trace[k - 2].idx = trace[k].idx
              /\ trace[k - 1].kind = "log_info_created"
        /\ \A k, m \in Pos("train_agent") : trace[k].idx = trace[m].idx => k = m
        /\ (pc \in {"loop", "done"} /\ AllNamed) =>
              Cardinality(Pos("train_agent")) = Cardinality(OkPos("create_intent"))
        /\ pc \in {"loop", "done"} =>
              {trace[k].idx : k \in Pos("train_agent")} =
                 {trace[k].idx : k \in {m \in OkPos("create_intent") :
                                           HasName(args.intents[trace[m].idx])}}

C4_Witness ==
    /\ TrainDone
    /\ AllNamed
    /\ NumIntents = 3
    /\ Cardinality(Pos("create_intent")) = 3
    /\ Cardinality(OkPos("create_intent")) = 1
    /\ Cardinality(Pos("train_agent")) = 1

----------------------------------------------------------------------------
(* C5 *)

\* C5: intents are processed strictly in input order: every remote call for
\* element j precedes every remote call for a later element, and the create call of
\* an element precedes its train call.
C5_Sequential ==
    op = "train_agent" =>
        /\ \A k, m \in RemotePos :
              k < m =>
                 \/ trace[k].idx < trace[m].idx
                 \/ /\ trace[k].idx = trace[m].idx
                    /\ trace[k].kind = "create_intent"
                    /\ trace[m].kind = "train_agent"
        /\ \A k \in RemotePos :
              /\ trace[k].idx \in 1..NumIntents
              /\ trace[k].name = NameOf(args.intents[trace[k].idx])
        /\ (TrainDone /\ NumIntents = 2 /\ FailedPos = {} /\ result.kind = "returned") =>
              [n \in 1..4 |-> <<trace[RemoteAt(n)].kind, trace[RemoteAt(n)].idx>>]
                 = << <<"create_intent", 1>>, <<"train_agent", 1>>,
                      <<"create_intent", 2>>, <<"train_agent", 2>> >>

\* Intents A then B, both succeeding.
C5_Witness ==
    /\ TrainDone
    /\ NumIntents = 2
    /\ AllNamed
    /\ args.intents[1].display_name = "A"
    /\ args.intents[2].display_name = "B"
    /\ FailedPos = {}
    /\ Cardinality(RemotePos) = 4
    /\ trace[1].name = "A"
    /\ trace[Len(trace)].name = "B"

----------------------------------------------------------------------------
(* C6 *)

\* C6: get_response never issues a second detect-intent call, whether the first
\* succeeded or failed, and an invocation that reached the call issued exactly one.
C6_OneDetectCall ==
    op = "get_response" =>
        /\ Cardinality(Pos("detect_intent")) <= 1
        /\ RemotePos \subseteq Pos("detect_intent")
        /\ (pc = "done" /\ Started) => Cardinality(Pos("detect_intent")) = 1

C6_Witness ==
    /\ QueryDone
    /\ Cardinality(Pos("detect_intent")) = 1
    /\ FailedPos # {}
    /\ trace[Len(trace)].outcome = "ServiceUnavailable"

----------------------------------------------------------------------------
(* C7 *)

\* C7: when the detect-intent call raises, get_response ends by raising that same
\* exception: no Response is returned and no result entry is logged after the call.
C7_PropagatesUnchanged ==
    (op = "get_response" /\ FailedPos # {}) =>
        /\ pc = "done"
        /\ \A k \in FailedPos :
              /\ result = Raised(trace[k].outcome)
              /\ k = Len(trace)
        /\ Pos("log_info_result") = {}
        /\ response = NoResponse

C7_Witness ==
    /\ QueryDone
    /\ result = Raised("TransportError")
    /\ Len(trace) = 2
    /\ trace[2].kind = "detect_intent"

----------------------------------------------------------------------------
(* C8 *)

\* C8: for a successful detect-intent reply, get_response returns a Response whose
\* text is the reply's fulfillment_text and whose is_fallback is the reply's
\* intent.is_fallback; no text is generated locally.
C8_ResponseMapsReply ==
    (op = "get_response" /\ OkPos("detect_intent") # {}) =>
        /\ pc = "done"
        /\ result.kind = "returned"
        /\ Len(result.value) = 1
        /\ result.value[1].text = response.fulfillment_text
        /\ result.value[1].is_fallback = response.is_fallback
        /\ response \in Replies(args.text)
        /\ (response.fulfillment_text = "Hello!" /\ ~response.is_fallback) =>
              result.value[1] = [text |-> "Hello!", is_fallback |-> FALSE]

\* A reply with an empty fulfillment text, flagged as fallback.
C8_Witness ==
    /\ QueryDone
    /\ OkPos("detect_intent") # {}
    /\ response.fulfillment_text = ""
    /\ response.is_fallback
    /\ result = Returned(<<[text |-> "", is_fallback |-> TRUE]>>)

----------------------------------------------------------------------------
(* C9 *)

\* Log entries written for element j, in order.
LogKinds == {"log_info_created", "log_info_trained", "log_error_not_created"}

RECURSIVE LogOf(_, _)
LogOf(j, n) ==
    IF n = 0 THEN <<>>
    ELSE IF trace[n].kind \in LogKinds /\ trace[n].idx = j
         THEN Append(LogOf(j, n - 1), trace[n].kind)
         ELSE LogOf(j, n - 1)

\* C9: for every intent definition (carrying display_name) whose create-intent or
\* train-agent call raised a remote-service error, an error entry naming its
\* display_name is logged before the create-intent call of the next intent; an
\* intent whose two calls succeeded gets no error entry, only a 'created' then a
\* 'trained' entry.  (For an element without display_name the handler raises
\* KeyError and the run ends with no entry and no further call.)
C9_ErrorLogged ==
    op = "train_agent" =>
        /\ \A k \in APIFailedPos :
              (~HasName(args.intents[trace[k].idx]) /\ pc # "except") =>
                 EndedByKeyError(trace[k].idx)
        /\ \A k \in APIFailedPos :
              (HasName(args.intents[trace[k].idx]) /\ (pc # "except" \/ k < Len(trace))) =>
                 /\ Len(trace) >= k + 2
                 /\ trace[k + 1].kind = "log_error_not_created"
                 /\ trace[k + 1].idx = trace[k].idx
                 /\ trace[k + 1].name = args.intents[trace[k].idx].display_name
                 /\ trace[k + 2].kind = "log_exception"
                 /\ trace[k + 2].outcome = trace[k].outcome
        /\ \A k \in APIFailedPos, m \in Pos("create_intent") :
              k < m => \E e \in Pos("log_error_not_created") :
                          /\ k < e /\ e < m
                          /\ trace[e].idx = trace[k].idx
        /\ \A k \in OkPos("train_agent") :
              LogOf(trace[k].idx, Len(trace)) = <<"log_info_created", "log_info_trained">>
        /\ \A e \in Pos("log_error_not_created") :
              \E k \in APIFailedPos : trace[k].idx = trace[e].idx /\ e = k + 1

C9_Witness ==
    /\ TrainDone
    /\ AllNamed
    /\ NumIntents = 3
    /\ \E k \in APIFailedPos : trace[k].kind = "train_agent" /\ trace[k].idx = 1
    /\ \E k \in OkPos("train_agent") : trace[k].idx = 2
    /\ \E k \in APIFailedPos : trace[k].kind = "create_intent" /\ trace[k].idx = 3
    /\ Cardinality(Pos("log_error_not_created")) = 2

----------------------------------------------------------------------------
(* C10 *)

\* The intents whose create-intent call succeeded, in call order.
RECURSIVE CreatedOf(_)
CreatedOf(n) ==
    IF n = 0 THEN <<>>
    ELSE IF trace[n].kind = "create_intent" /\ trace[n].outcome = "ok"
         THEN Append(CreatedOf(n - 1), args.intents[trace[n].idx])
         ELSE CreatedOf(n - 1)

IsPrefix(s, t) == Len(s) <= Len(t) /\ SubSeq(t, 1, Len(s)) = s

\* C10: no rollback and no retry: an intent once created stays in the remote agent
\* for the rest of the run, whatever fails later, and an element whose create-intent
\* or train-agent call failed receives no further remote call.
C10_NoRollbackNoRetry ==
    /\ [][IsPrefix(agentIntents, agentIntents') /\ IsPrefix(trace, trace')]_vars
    /\ [](op = "train_agent" =>
            /\ agentIntents = CreatedOf(Len(trace))
            /\ \A k \in FailedPos, m \in RemotePos :
                  m > k => trace[m].idx # trace[k].idx
            /\ \A k, m \in Pos("create_intent") : trace[k].idx = trace[m].idx => k = m)

C10_Witness ==
    /\ TrainDone
    /\ NumIntents = 2
    /\ Len(agentIntents) = 2
    /\ \E k \in APIFailedPos : trace[k].kind = "train_agent" /\ trace[k].idx = 1
    /\ \E k \in FailedPos : trace[k].kind = "train_agent" /\ trace[k].idx = 2

====
